---------------------------- MODULE Spec2Model ----------------------------
(***************************************************************************)
(* A model of package handler (src/handler.go): RegexpHandler, an          *)
(* http.Handler that keeps an ordered list of (regular expression,         *)
(* function) routes and serves a request by calling the function of the    *)
(* first route whose expression matches the request's path.               *)
(*                                                                         *)
(* Strings (expressions, paths, submatches) are sequences of one-character *)
(* strings.  Add's "^" + expression + "$" is a concatenation of such       *)
(* sequences, regexp.MustCompile is a parser of the concatenated text with *)
(* the operator precedence of Go's regexp/syntax, and FindStringSubmatch   *)
(* is a leftmost-first matcher over the parsed expression.                 *)
(***************************************************************************)
EXTENDS Integers, Sequences, FiniteSets, TLC

VARIABLES routes, last, phase, gor

vars == <<routes, last, phase, gor>>

-----------------------------------------------------------------------------
(* Bounds of the model. *)

\* The longest route table Add builds.
MaxRoutes == 2

\* The longest request path served.
MaxPathLen == 2

-----------------------------------------------------------------------------
(* Inputs. *)

\* The characters a request path is made of.
Chars == {"a", "b"}

RECURSIVE StringsUpTo(_)
StringsUpTo(n) ==
  IF n = 0 THEN {<<>>}
  ELSE LET shorter == StringsUpTo(n - 1)
       IN  shorter \cup {Append(s, c) : s \in {x \in shorter : Len(x) = n - 1}, c \in Chars}

\* r.URL.Path of the requests served.
Paths == StringsUpTo(MaxPathLen)

\* The expressions handed to Add.
ExprAlt      == <<"a", "|", "(", "b", ")">>
ExprStar     == <<"a", "*">>
ExprGroups   == <<"(", "a", ")", "(", "b", "*", ")">>
ExprCatchAll == <<"(", "a", "|", "b", ")", "*">>
ExprBad      == <<"(", "a">>

Expressions ==
  {ExprStar, ExprAlt, ExprGroups, ExprCatchAll, ExprBad}

\* The functions handed to Add; a function is opaque to the handler.
Functions == {"f1", "f2"}

\* What a route's function does when called: return, or panic with a value.
Return == "return"
Outcomes == {Return, "boom"}

\* The absence of a panic.
NoPanic == "none"

-----------------------------------------------------------------------------
(* regexp.MustCompile: the syntax of the expression text. *)

\* Body(v) with v evaluated once.
Let(v, Body(_)) == CHOOSE r \in {Body(x) : x \in {v}} : TRUE

Lit(c)     == [op |-> "lit", c |-> c]
Empty      == [op |-> "empty"]
BeginText  == [op |-> "bol"]
EndText    == [op |-> "eol"]
Cat(l, r)  == [op |-> "cat", l |-> l, r |-> r]
Alt(l, r)  == [op |-> "alt", l |-> l, r |-> r]
Star(x)    == [op |-> "star", sub |-> x]
Cap(k, x)  == [op |-> "cap", idx |-> k, sub |-> x]

ParseOk(node, pos, ncap) == [ok |-> TRUE, node |-> node, pos |-> pos, ncap |-> ncap]
ParseErr == [ok |-> FALSE, node |-> Empty, pos |-> 0, ncap |-> 0]

RECURSIVE ParseAlt(_, _, _)
RECURSIVE ParseConcat(_, _, _)

\* One operand from t[i]: a literal, "^", "$" or a parenthesised group; a "*"
\* here has nothing to repeat.  Groups are numbered by their opening
\* parenthesis, left to right; n groups were opened before t[i].
ParseAtom(t, i, n) ==
  CASE t[i] = "(" ->
         Let(ParseAlt(t, i + 1, n + 1), LAMBDA r :
           IF r.ok /\ r.pos <= Len(t) /\ t[r.pos] = ")"
           THEN ParseOk(Cap(n + 1, r.node), r.pos + 1, r.ncap)
           ELSE ParseErr)
    [] t[i] = "^" -> ParseOk(BeginText, i + 1, n)
    [] t[i] = "$" -> ParseOk(EndText, i + 1, n)
    [] t[i] = "*" -> ParseErr
    [] OTHER      -> ParseOk(Lit(t[i]), i + 1, n)

\* An operand with at most one "*" after it: a second "*" is left for
\* ParseAtom to reject.
ParsePiece(t, i, n) ==
  Let(ParseAtom(t, i, n), LAMBDA a :
    IF a.ok /\ a.pos <= Len(t) /\ t[a.pos] = "*"
    THEN ParseOk(Star(a.node), a.pos + 1, a.ncap)
    ELSE a)

\* A concatenation runs to the next "|" or ")" or the end of the text.
ParseConcat(t, i, n) ==
  IF i > Len(t) \/ t[i] \in {"|", ")"}
  THEN ParseOk(Empty, i, n)
  ELSE Let(ParsePiece(t, i, n), LAMBDA p :
         IF ~p.ok THEN ParseErr
         ELSE Let(ParseConcat(t, p.pos, p.ncap), LAMBDA rest :
                IF ~rest.ok THEN ParseErr
                ELSE ParseOk(Cat(p.node, rest.node), rest.pos, rest.ncap)))

\* "|" binds loosest: everything on either side of it, up to the enclosing
\* parentheses, is one alternative.
ParseAlt(t, i, n) ==
  Let(ParseConcat(t, i, n), LAMBDA l :
    IF ~l.ok THEN ParseErr
    ELSE IF l.pos <= Len(t) /\ t[l.pos] = "|"
         THEN Let(ParseAlt(t, l.pos + 1, l.ncap), LAMBDA r :
                IF ~r.ok THEN ParseErr
                ELSE ParseOk(Alt(l.node, r.node), r.pos, r.ncap))
         ELSE l)

\* regexp.Compile: the compiled expression, or an error (ok = FALSE).
Compile(t) ==
  Let(ParseAlt(t, 1, 0), LAMBDA r :
    IF r.ok /\ r.pos = Len(t) + 1
    THEN [ok |-> TRUE, expr |-> t, prog |-> r.node, numSubexp |-> r.ncap]
    ELSE [ok |-> FALSE, expr |-> t, prog |-> Empty, numSubexp |-> 0])

-----------------------------------------------------------------------------
(* Regexp.FindStringSubmatch: leftmost-first matching. *)

\* The bounds of a group that took no part in the match.
Unset == <<-1, -1>>

Thread(pos, caps) == [pos |-> pos, caps |-> caps]

RECURSIVE Match(_, _, _, _)
RECURSIVE Continue(_, _, _, _)
RECURSIVE Loop(_, _, _, _, _)
RECURSIVE Iterations(_, _, _, _, _, _, _)

\* The ways node x matches s from position i, best first; each is the
\* position reached and the groups' bounds.
Match(x, s, i, caps) ==
  CASE x.op = "empty" -> <<Thread(i, caps)>>
    [] x.op = "lit"   -> IF i <= Len(s) /\ s[i] = x.c
                         THEN <<Thread(i + 1, caps)>> ELSE <<>>
    [] x.op = "bol"   -> IF i = 1 THEN <<Thread(i, caps)>> ELSE <<>>
    [] x.op = "eol"   -> IF i = Len(s) + 1 THEN <<Thread(i, caps)>> ELSE <<>>
    [] x.op = "cap"   -> Let(Match(x.sub, s, i, caps), LAMBDA inner :
                           [k \in 1..Len(inner) |->
                             Thread(inner[k].pos,
                                    [inner[k].caps EXCEPT ![x.idx] = <<i, inner[k].pos>>])])
    [] x.op = "cat"   -> Let(Match(x.l, s, i, caps), LAMBDA ts :
                           Continue(x.r, s, ts, 1))
    [] x.op = "alt"   -> Match(x.l, s, i, caps) \o Match(x.r, s, i, caps)
    [] x.op = "star"  -> Loop(x.sub, s, i, caps, TRUE)

\* x matched from each of ts[k], ts[k+1], ..., in order.
Continue(x, s, ts, k) ==
  IF k > Len(ts) THEN <<>>
  ELSE Match(x, s, ts[k].pos, ts[k].caps) \o Continue(x, s, ts, k + 1)

\* x*, greedy, from position i: every way one more x matches, each followed
\* by more of the loop, and last of all leaving the loop at i.
Loop(x, s, i, caps, first) ==
  Let(Match(x, s, i, caps), LAMBDA its : Iterations(x, s, i, caps, its, 1, first))

\* An iteration that matched the empty string ends the loop if it is the
\* first one, and is dropped otherwise.
Iterations(x, s, i, caps, its, k, first) ==
  IF k > Len(its) THEN <<Thread(i, caps)>>
  ELSE (IF its[k].pos > i THEN Loop(x, s, its[k].pos, its[k].caps, FALSE)
        ELSE IF first THEN <<its[k]>> ELSE <<>>)
       \o Iterations(x, s, i, caps, its, k + 1, first)

\* The text of a group: the empty string when the group took no part.
GroupText(s, b) == IF b = Unset THEN <<>> ELSE SubSeq(s, b[1], b[2] - 1)

\* The best match starting at the leftmost position from i that has one:
\* <<the whole match, group 1, ..., group numSubexp>>, or nil.
RECURSIVE FindFrom(_, _, _)
FindFrom(re, s, i) ==
  IF i > Len(s) + 1 THEN [nil |-> TRUE, m |-> <<>>]
  ELSE Let(Match(re.prog, s, i, [k \in 1..re.numSubexp |-> Unset]), LAMBDA ts :
         IF Len(ts) > 0
         THEN [nil |-> FALSE,
               m   |-> <<SubSeq(s, i, ts[1].pos - 1)>> \o
                       [k \in 1..re.numSubexp |-> GroupText(s, ts[1].caps[k])]]
         ELSE FindFrom(re, s, i + 1))

FindStringSubmatch(re, s) == FindFrom(re, s, 1)

-----------------------------------------------------------------------------
(* type route, type RegexpHandler, NewRegexpHandler. *)

Route(re, f) == [re |-> re, f |-> f]

\* The last call made on the handler, as its caller sees it: the call and its
\* arguments, the calls it made to routes' functions, and the panic it ended
\* with, if any.
Returned(op, expression, function, path, calls, panic) ==
  [op |-> op, expression |-> expression, function |-> function,
   path |-> path, calls |-> calls, panic |-> panic]

\* The goroutines of the surrounding server that call ServeHTTP.
Goroutines == {"g1", "g2"}

\* A goroutine inside ServeHTTP: the value of h.routes its range statement
\* took, the index of the range, the path of its request, what it has called
\* and the panic it ends with.
Local(pc, rs, i, path, calls, panic) ==
  [pc |-> pc, rs |-> rs, i |-> i, path |-> path, calls |-> calls, panic |-> panic]

Idle == Local("idle", <<>>, 0, <<>>, <<>>, NoPanic)

\* &RegexpHandler{}: no routes.
NewRegexpHandler == <<>>

Init ==
  /\ routes = NewRegexpHandler
  /\ last = Returned("NewRegexpHandler", <<>>, "", <<>>, <<>>, NoPanic)
  /\ phase = "setup"
  /\ gor = [g \in Goroutines |-> Idle]

-----------------------------------------------------------------------------
(* RegexpHandler.Add *)

\* "^" + expression + "$"
Anchor(expression) == <<"^">> \o expression \o <<"$">>

\* The value MustCompile panics with.
CompilePanic == "regexp: Compile"

\* A slip: the new route put in front of the others.
PrependRoute(rs, re, function) == <<Route(re, function)>> \o rs

\* h.routes = append(h.routes, &route{re, function})
AppendRoute(rs, re, function) == Append(rs, Route(re, function))

\* A slip: regexp.Compile with its error dropped, in place of MustCompile.
AddResultUnchecked(rs, expression, function) ==
  Let(Compile(Anchor(expression)), LAMBDA re :
    [routes |-> AppendRoute(rs, re, function), panic |-> NoPanic])

\* The route table Add leaves and the panic it ends with: MustCompile panics
\* before the append when the anchored text does not compile.
AddResult(rs, expression, function) ==
  Let(Compile(Anchor(expression)), LAMBDA re :
    IF ~re.ok
    THEN [routes |-> rs, panic |-> CompilePanic]
    ELSE [routes |-> AppendRoute(rs, re, function), panic |-> NoPanic])

Add(expression, function) ==
  /\ Len(routes) < MaxRoutes
  /\ \E r \in {AddResult(routes, expression, function)} :
       /\ routes' = r.routes
       /\ last' = Returned("Add", expression, function, <<>>, <<>>, r.panic)
  /\ UNCHANGED <<phase, gor>>

-----------------------------------------------------------------------------
(* RegexpHandler.ServeHTTP *)

\* A slip: the whole slice, the full match included.
SubmatchesWhole(matches) == matches

\* matches[1:]
Submatches(matches) == Tail(matches)

\* route.f(w, r, matches[1:]): the call of route i's function, the slice it
\* is passed and what the function did.
Call(i, f, submatches, out) ==
  [route |-> i, f |-> f, submatches |-> submatches, did |-> out]

\* A slip: a deferred recover() that swallows the panic of a function.
PropagateRecovered(out) == NoPanic

\* What the caller of ServeHTTP sees of a called function that did `out`:
\* nothing recovers a panic.
Propagate(out) == IF out = Return THEN NoPanic ELSE out

\* A slip: the range stops one route short.
RangeEndShort(rs) == Len(rs) - 1

\* range rs: the last index of the loop.
RangeEnd(rs) == Len(rs)

\* A slip: the routes ranged over from the last registered to the first.
RouteAtReversed(rs, i) == rs[Len(rs) + 1 - i]

\* range rs: the route of iteration i.
RouteAt(rs, i) == rs[i]

\* A slip: a not-found panic when no route matched.
NoRouteNotFound == [calls |-> <<>>, panic |-> "not found"]

\* The loop ran out of routes: nothing was called, ServeHTTP returns.
NoRoute == [calls |-> <<>>, panic |-> NoPanic]

\* A slip: the loop without its break, calling every matching route.
RECURSIVE ServeLoopNoBreak(_, _, _, _)
ServeLoopNoBreak(rs, path, i, out) ==
  IF i > RangeEnd(rs) THEN NoRoute
  ELSE Let(FindStringSubmatch(RouteAt(rs, i).re, path), LAMBDA matches :
         Let(ServeLoopNoBreak(rs, path, i + 1, out), LAMBDA rest :
           IF ~matches.nil
           THEN [calls |-> <<Call(i, RouteAt(rs, i).f, Submatches(matches.m), out)>>
                           \o rest.calls,
                 panic |-> Propagate(out)]
           ELSE rest))

\* for _, route := range rs, from iteration i: the calls made and the panic
\* the loop ends with, when a called function does `out`.  The first match
\* ends the loop: by the break if the function returns, by the panic
\* unwinding ServeHTTP if it panics.
RECURSIVE ServeLoop(_, _, _, _)
ServeLoop(rs, path, i, out) ==
  IF i > RangeEnd(rs) THEN NoRoute
  ELSE Let(FindStringSubmatch(RouteAt(rs, i).re, path), LAMBDA matches :
         IF ~matches.nil
         THEN [calls |-> <<Call(i, RouteAt(rs, i).f, Submatches(matches.m), out)>>,
               panic |-> Propagate(out)]
         ELSE ServeLoop(rs, path, i + 1, out))

ServeHTTP(path, out) ==
  /\ \E r \in {ServeLoop(routes, path, 1, out)} :
       last' = Returned("ServeHTTP", <<>>, "", path, r.calls, r.panic)
  /\ UNCHANGED <<routes, phase, gor>>

Next ==
  \/ \E expression \in Expressions, function \in Functions : Add(expression, function)
  \/ \E path \in Paths, out \in Outcomes : ServeHTTP(path, out)

Spec == Init /\ [][Next]_vars

-----------------------------------------------------------------------------
(* ServeHTTP called from several goroutines once every Add has returned. *)

\* The routes registered before serving begins.
SetupExpressions == {ExprStar, ExprAlt, ExprCatchAll}
SetupFunctions == {"f1"}

\* A slip: an iteration that calls the route's function and goes on.
StepNoBreak(st, out) ==
  IF st.i > RangeEnd(st.rs) THEN [st EXCEPT !.pc = "done"]
  ELSE Let(FindStringSubmatch(RouteAt(st.rs, st.i).re, st.path), LAMBDA matches :
         IF ~matches.nil
         THEN [st EXCEPT !.i = st.i + 1,
                         !.calls = st.calls \o
                           <<Call(st.i, RouteAt(st.rs, st.i).f, Submatches(matches.m), out)>>,
                         !.panic = Propagate(out)]
         ELSE [st EXCEPT !.i = st.i + 1])

\* One iteration of the range loop of a goroutine in state st, or the end of
\* the loop.
Step(st, out) ==
  IF st.i > RangeEnd(st.rs) THEN [st EXCEPT !.pc = "done"]
  ELSE Let(FindStringSubmatch(RouteAt(st.rs, st.i).re, st.path), LAMBDA matches :
         IF ~matches.nil
         THEN [st EXCEPT !.pc = "done",
                         !.calls = <<Call(st.i, RouteAt(st.rs, st.i).f,
                                          Submatches(matches.m), out)>>,
                         !.panic = Propagate(out)]
         ELSE [st EXCEPT !.i = st.i + 1])

Setup(expression, function) ==
  /\ phase = "setup"
  /\ Add(expression, function)

StartServing ==
  /\ phase = "setup"
  /\ phase' = "serving"
  /\ UNCHANGED <<routes, last, gor>>

\* A goroutine enters ServeHTTP: range h.routes reads the slice once.
Enter(g, path) ==
  /\ phase = "serving"
  /\ gor[g].pc = "idle"
  /\ gor' = [gor EXCEPT ![g] = Local("loop", routes, 1, path, <<>>, NoPanic)]
  /\ UNCHANGED <<routes, last, phase>>

Iterate(g, out) ==
  /\ gor[g].pc = "loop"
  /\ gor' = [gor EXCEPT ![g] = Step(gor[g], out)]
  /\ UNCHANGED <<routes, last, phase>>

\* ServeHTTP is over in goroutine g: it returned or its panic unwound it.
Leave(g) ==
  /\ gor[g].pc = "done"
  /\ gor' = [gor EXCEPT ![g] = Idle]
  /\ UNCHANGED <<routes, last, phase>>

NextConcurrent ==
  \/ \E expression \in SetupExpressions, function \in SetupFunctions :
       Setup(expression, function)
  \/ StartServing
  \/ \E g \in Goroutines, path \in Paths : Enter(g, path)
  \/ \E g \in Goroutines, out \in Outcomes : Iterate(g, out)
  \/ \E g \in Goroutines : Leave(g)

SpecConcurrent == Init /\ [][NextConcurrent]_vars

-----------------------------------------------------------------------------
(* The notions the properties are stated with. *)

\* Route rt's compiled expression matches path s.
RouteMatches(rt, s) == ~FindStringSubmatch(rt.re, s).nil

\* The indices of the routes of the table that match s.
Matching(s) == {i \in 1..Len(routes) : RouteMatches(routes[i], s)}

Min(S) == CHOOSE i \in S : \A j \in S : i <= j

\* The expression a route was registered with: its text without the "^" and
\* "$" Add put around it.
Registered(rt) == SubSeq(rt.re.expr, 2, Len(rt.re.expr) - 1)

\* Expression e, taken by itself, matches the whole of s: some way of
\* matching e from the start of s ends at the end of s.
FullMatch(e, s) ==
  Let(Compile(e), LAMBDA re :
    /\ re.ok
    /\ Let(Match(re.prog, s, 1, [k \in 1..re.numSubexp |-> Unset]), LAMBDA ts :
         \E k \in 1..Len(ts) : ts[k].pos = Len(s) + 1))

\* The number of capture groups of expression e: its opening parentheses.
NumGroups(e) == Cardinality({j \in 1..Len(e) : e[j] = "("})

\* A route whose expression matches every path.
IsCatchAll(rt) == \A s \in Paths : RouteMatches(rt, s)

\* The last call was ServeHTTP.
Served == last.op = "ServeHTTP"

-----------------------------------------------------------------------------
(* C1: first match wins.  When ServeHTTP has served a path that at least    *)
(* one route matches, it has called exactly one function, that of the      *)
(* matching route registered first, and no other.                          *)
FirstMatchWins ==
  (Served /\ Matching(last.path) # {}) =>
    /\ Len(last.calls) = 1
    /\ last.calls[1].route = Min(Matching(last.path))
    /\ last.calls[1].f = routes[Min(Matching(last.path))].f

\* A path two routes match was served, and the second-registered route has
\* another function than the first.
FirstMatchWinsWitness ==
  /\ Served
  /\ Matching(last.path) = {1, 2}
  /\ routes[1].f # routes[2].f
  /\ Len(last.calls) = 1

(* C2: anchoring enforces a full-string match.  A route registered with     *)
(* expression e matches path s exactly when e matches the whole of s, never *)
(* when e matches only a prefix or a substring of s.                        *)
AnchoredIsFullMatch ==
  \A i \in 1..Len(routes) : \A s \in Paths :
    RouteMatches(routes[i], s) <=> FullMatch(Registered(routes[i]), s)

(* C3: a function is passed one submatch per capture group of its route's   *)
(* expression, in the order of the groups, without the whole match: nothing *)
(* for ExprStar, and for ExprGroups the leading "a" and then the rest.      *)
SubmatchPerGroup ==
  Served =>
    \A k \in 1..Len(last.calls) :
      LET call == last.calls[k]
          e    == Registered(routes[call.route])
      IN  /\ Len(call.submatches) = NumGroups(e)
          /\ e = ExprStar => call.submatches = <<>>
          /\ e = ExprGroups => call.submatches = <<<<"a">>, Tail(last.path)>>

\* ExprGroups served path "ab" and passed "a", "b".
SubmatchPerGroupWitness ==
  /\ Served
  /\ last.path = <<"a", "b">>
  /\ Len(last.calls) = 1
  /\ Registered(routes[last.calls[1].route]) = ExprGroups
  /\ last.calls[1].submatches = <<<<"a">>, <<"b">>>>

(* C4: when ServeHTTP has served a path that no route matches (the table    *)
(* may be empty), it has called no function and has returned without a     *)
(* panic.                                                                   *)
NoMatchNoCall ==
  (Served /\ Matching(last.path) = {}) =>
    /\ last.calls = <<>>
    /\ last.panic = NoPanic

\* A table of two routes served a path neither matches.
NoMatchNoCallWitness ==
  /\ Served
  /\ Len(routes) = 2
  /\ Matching(last.path) = {}
  /\ last.calls = <<>>

(* C5: an Add of an expression whose anchored text does not compile panics  *)
(* in Add and leaves the route table as it was; every route of the table    *)
(* holds a compiled expression, and ServeHTTP never ends with that panic.   *)
InvalidPatternPanicsInAdd ==
  /\ [](/\ \A i \in 1..Len(routes) : routes[i].re.ok
        /\ Served => last.panic # CompilePanic)
  /\ [][(last'.op = "Add" /\ ~Compile(Anchor(last'.expression)).ok) =>
          /\ last'.panic = CompilePanic
          /\ routes' = routes]_vars

\* An Add of ExprBad has panicked on a table that holds a route.
InvalidPatternWitness ==
  /\ last.op = "Add"
  /\ last.expression = ExprBad
  /\ last.panic = CompilePanic
  /\ Len(routes) = 1

(* C6: the route table is append-only.  It starts empty; an Add that        *)
(* returns makes it one longer, with the new route last; and no call        *)
(* changes, removes or moves a route already in it.                         *)
AppendOnly ==
  /\ routes = <<>>
  /\ [][/\ Len(routes') \in {Len(routes), Len(routes) + 1}
        /\ SubSeq(routes', 1, Len(routes)) = routes
        /\ (last'.op = "Add" /\ last'.panic = NoPanic) =>
             /\ Len(routes') = Len(routes) + 1
             /\ routes'[Len(routes')].re.expr = Anchor(last'.expression)
             /\ routes'[Len(routes')].f = last'.function]_vars

\* Two different routes were added and a path then served.
AppendOnlyWitness ==
  /\ Served
  /\ Len(routes) = 2
  /\ routes[1] # routes[2]

(* C7: once a route that matches every path is in the table, every          *)
(* ServeHTTP calls exactly one function, and it is the catch-all route's    *)
(* exactly when no route registered before it matches the path.             *)
CatchAllExactlyOne ==
  Served =>
    \A c \in 1..Len(routes) :
      IsCatchAll(routes[c]) =>
        /\ Len(last.calls) = 1
        /\ last.calls[1].route = c <=> (\A j \in 1..(c - 1) : j \notin Matching(last.path))

\* A catch-all registered last served a path the route before it does not
\* match.
CatchAllWitness ==
  /\ Served
  /\ Len(routes) = 2
  /\ IsCatchAll(routes[2])
  /\ ~IsCatchAll(routes[1])
  /\ 1 \notin Matching(last.path)
  /\ Len(last.calls) = 1
  /\ last.calls[1].route = 2

(* C8: ServeHTTP leaves the route table as it is and calls at most one      *)
(* function, whether or not a route matches.                                *)
ServeChangesNothing ==
  [][last'.op = "ServeHTTP" =>
       /\ routes' = routes
       /\ Len(last'.calls) <= 1]_vars

\* A path every route of a table of two matches was served.
ServeChangesNothingWitness ==
  /\ Served
  /\ Len(routes) = 2
  /\ Cardinality(Matching(last.path)) = 2
  /\ Len(last.calls) = 1
  /\ last.calls[1].did = Return

(* C9: the panic of a called function reaches the caller of ServeHTTP as    *)
(* it was raised, and no function is called after it; ServeHTTP ends with   *)
(* no other panic.                                                          *)
PanicPropagates ==
  Served =>
    /\ \A k \in 1..Len(last.calls) :
         last.calls[k].did # Return =>
           /\ last.panic = last.calls[k].did
           /\ k = Len(last.calls)
    /\ last.panic # NoPanic =>
         \E k \in 1..Len(last.calls) : last.calls[k].did = last.panic

\* The first of two matching routes panicked.
PanicPropagatesWitness ==
  /\ Served
  /\ Cardinality(Matching(last.path)) = 2
  /\ last.panic = "boom"
  /\ Len(last.calls) = 1
  /\ last.calls[1].route = 1

(* C10: with every Add done before serving begins, a goroutine's ServeHTTP  *)
(* ranges over the route table as it is, and ends with the call, the        *)
(* submatches and the panic that one ServeHTTP alone makes of its path, in  *)
(* whatever order the goroutines' iterations are taken.                     *)
ConcurrentAsSequential ==
  \A g \in Goroutines :
    /\ gor[g].pc # "idle" => (phase = "serving" /\ gor[g].rs = routes)
    /\ gor[g].pc = "done" =>
         \E out \in Outcomes :
           ServeLoop(routes, gor[g].path, 1, out) =
             [calls |-> gor[g].calls, panic |-> gor[g].panic]

\* One goroutine has called the second route for its path while the other
\* is in the middle of its loop for another path.
ConcurrentWitness ==
  /\ gor["g1"].pc = "done"
  /\ Len(gor["g1"].calls) = 1
  /\ gor["g1"].calls[1].route = 2
  /\ gor["g2"].pc = "loop"
  /\ gor["g2"].i = 2
  /\ gor["g2"].path # gor["g1"].path

=============================================================================
